---- MODULE Spec2Model ----
(***************************************************************************)
(* Model of the typing-practice application in src/main.py: the session    *)
(* fields held on TypingApp, the Tk event handlers that change them, the   *)
(* deferred root.after callbacks and the progress file written by          *)
(* save_progress.                                                          *)
(*                                                                         *)
(* Encodings.  Python strings are sequences of one-character strings.      *)
(* time.time() is a whole number of seconds, and the clock is sampled once *)
(* per result delay.  Values rounded to two                                *)
(* decimals (wpm, accuracy) are kept in hundredths.  Python's None is the  *)
(* value None below for start_time and NoLesson for selected_lesson.       *)
(* Indices into self.lessons are 0-based as in the source.                 *)
(***************************************************************************)
EXTENDS Integers, Sequences, FiniteSets, TLC

VARIABLES
    lessons,               \* self.lessons
    current_lesson_index,  \* self.current_lesson_index
    selected_lesson,       \* self.selected_lesson
    lesson_var,            \* self.lesson_var, the text shown by the combo box
    typed_text,            \* content of the self.typed_text widget ("1.0" to "end-1c")
    tags,                  \* highlight tag of each character of typed_text
    user_started_typing,   \* self.user_started_typing
    start_time,            \* self.start_time
    username_entry,        \* content of self.username_entry
    progress_file,         \* PROGRESS_FILE on disk
    pending,               \* callbacks queued by root.after, in firing order
    finished_windows,      \* number of "All Lessons Complete" windows created
    now,                   \* the clock read by time.time()
    event,                 \* history: the handler that ran last
    saved_records,         \* history: records passed to save_progress calls that returned
    records_since_keystroke, \* history: records appended since the last key press or lesson load
    advances,              \* history: number of close_results_and_next calls so far
    scored                 \* arguments and results of a direct calculate_wpm_and_accuracy call

vars == <<lessons, current_lesson_index, selected_lesson, lesson_var, typed_text, tags,
          user_started_typing, start_time, username_entry, progress_file, pending,
          finished_windows, now, event, saved_records, records_since_keystroke,
          advances, scored>>

session == <<current_lesson_index, selected_lesson, lesson_var, typed_text, tags,
             user_started_typing, start_time>>

(***************************************************************************)
(* Bounds of the model.                                                    *)
(***************************************************************************)
MaxClock == 5
MaxTyped == 1
MaxAttempts == 2
MaxGradeLen == 3

(***************************************************************************)
(* Program constants and encodings.                                        *)
(***************************************************************************)
ResultDelaySeconds == 5

None == -1

NoLesson == [id |-> 0, title |-> <<>>, content |-> <<>>]

Whitespace == {" ", "\n", "\t"}

Keys == {"a"}

(***************************************************************************)
(* String helpers.                                                         *)
(***************************************************************************)
DigitChar(d) ==
    CASE d = 0 -> "0" [] d = 1 -> "1" [] d = 2 -> "2" [] d = 3 -> "3" [] d = 4 -> "4"
      [] d = 5 -> "5" [] d = 6 -> "6" [] d = 7 -> "7" [] d = 8 -> "8" [] d = 9 -> "9"

RECURSIVE Str(_)
Str(n) == IF n < 10 THEN <<DigitChar(n)>> ELSE Str(n \div 10) \o <<DigitChar(n % 10)>>

RECURSIVE LStrip(_)
LStrip(s) == IF s # <<>> /\ Head(s) \in Whitespace THEN LStrip(Tail(s)) ELSE s

RECURSIVE RStrip(_)
RStrip(s) ==
    IF s # <<>> /\ s[Len(s)] \in Whitespace THEN RStrip(SubSeq(s, 1, Len(s) - 1)) ELSE s

Strip(s) == RStrip(LStrip(s))

RECURSIVE RStripNewlines(_)
RStripNewlines(s) ==
    IF s # <<>> /\ s[Len(s)] = "\n" THEN RStripNewlines(SubSeq(s, 1, Len(s) - 1)) ELSE s

RECURSIVE SplitColonFirst(_)
SplitColonFirst(s) ==
    IF s = <<>> \/ Head(s) = ":" THEN <<>> ELSE <<Head(s)>> \o SplitColonFirst(Tail(s))

RECURSIVE WordCountFrom(_, _)
WordCountFrom(s, inWord) ==
    IF s = <<>> THEN 0
    ELSE IF Head(s) \in Whitespace THEN WordCountFrom(Tail(s), FALSE)
    ELSE (IF inWord THEN 0 ELSE 1) + WordCountFrom(Tail(s), TRUE)

WordCount(s) == WordCountFrom(s, FALSE)

Max(a, b) == IF a >= b THEN a ELSE b

RoundHalfEven(num, den) ==
    LET q == num \div den
        r == num % den
    IN  IF 2 * r < den THEN q
        ELSE IF 2 * r > den THEN q + 1
        ELSE IF q % 2 = 0 THEN q ELSE q + 1

(***************************************************************************)
(* load_lessons and the fallback of TypingApp.__init__.                    *)
(***************************************************************************)
Lesson1 == [id |-> 1, title |-> <<"H", "o", "m", "e">>, content |-> <<"a", " ", "b">>]
Lesson2 == [id |-> 2, title |-> <<"T", "o", "p", ":", "1">>, content |-> <<"a">>]

PlaceholderLesson ==
    [id |-> 1,
     title |-> <<"N", "o", " ", "L", "e", "s", "s", "o", "n", "s", " ",
                 "F", "o", "u", "n", "d">>,
     content |-> <<"P", "l", "e", "a", "s", "e", " ", "c", "h", "e", "c", "k", " ",
                   "l", "e", "s", "s", "o", "n", "s", ".", "j", "s", "o", "n">>]

MissingSource == [exists |-> FALSE, lessons |-> <<>>]
EmptySource == [exists |-> TRUE, lessons |-> <<>>]
FullSource == [exists |-> TRUE, lessons |-> <<Lesson1, Lesson2>>]

load_lessons(source) == IF source.exists THEN source.lessons ELSE <<>>

InitialLessonsNoFallback(source) == load_lessons(source)

InitialLessons(source) ==
    IF load_lessons(source) = <<>> THEN <<PlaceholderLesson>> ELSE load_lessons(source)

LessonTitle(lesson) == Str(lesson.id) \o <<":", " ">> \o lesson.title

(***************************************************************************)
(* calculate_wpm_and_accuracy.                                             *)
(***************************************************************************)
RECURSIVE WalkErrors(_, _, _)
WalkErrors(typed, reference, i) ==
    IF i > Len(typed) THEN 0
    ELSE IF i > Len(reference) THEN Len(typed) - Len(reference)
    ELSE (IF typed[i] # reference[i] THEN 1 ELSE 0) + WalkErrors(typed, reference, i + 1)

CountErrorsNoMissing(typed, reference) == WalkErrors(typed, reference, 1)

CountErrors(typed, reference) ==
    WalkErrors(typed, reference, 1)
      + (IF Len(typed) < Len(reference) THEN Len(reference) - Len(typed) ELSE 0)

WpmPerSecond(reference, start, end) ==
    IF end - start > 0 /\ WordCount(reference) > 0
    THEN RoundHalfEven(WordCount(reference) * 100, end - start)
    ELSE 0

Wpm(reference, start, end) ==
    IF end - start > 0 /\ WordCount(reference) > 0
    THEN RoundHalfEven(WordCount(reference) * 60 * 100, end - start)
    ELSE 0

CorrectChars(typed, reference) == Max(0, Len(reference) - CountErrors(typed, reference))

AccuracyNoClamp(typed, reference) ==
    IF Len(reference) > 0
    THEN RoundHalfEven((Len(reference) - CountErrors(typed, reference)) * 100 * 100,
                       Len(reference))
    ELSE 0

AccuracyErrorRate(typed, reference) ==
    IF Len(reference) > 0
    THEN RoundHalfEven(CountErrors(typed, reference) * 100 * 100, Len(reference))
    ELSE 0

Accuracy(typed, reference) ==
    IF Len(reference) > 0
    THEN RoundHalfEven(CorrectChars(typed, reference) * 100 * 100, Len(reference))
    ELSE 0

calculate_wpm_and_accuracy(typed, reference, start, end) ==
    [wpm |-> Wpm(reference, start, end), accuracy |-> Accuracy(typed, reference)]

NotScored ==
    [done |-> FALSE, typed |-> <<>>, reference |-> <<>>, start |-> 0, end |-> 0,
     errors |-> 0, correct_chars |-> 0, wpm |-> 0, accuracy |-> 0]

(***************************************************************************)
(* save_progress.  A fault is what the file system does during the call:   *)
(* "none", "open" (an open() raises, nothing is written) or "dump" (the    *)
(* file was opened for writing, hence truncated, and the write raises).    *)
(***************************************************************************)
StorageFaults == {"none", "open", "dump"}

AbsentFile == [state |-> "absent", attempts |-> <<>>]
CorruptFile == [state |-> "corrupt", attempts |-> <<>>]

LoadAttempts(file) == IF file.state = "absent" THEN <<>> ELSE file.attempts

save_progress_overwrite(file, progress_record, fault) ==
    IF file.state = "corrupt" \/ fault = "open"
    THEN [file |-> file, raised |-> TRUE]
    ELSE IF fault = "dump"
    THEN [file |-> CorruptFile, raised |-> TRUE]
    ELSE [file |-> [state |-> "ok", attempts |-> <<progress_record>>], raised |-> FALSE]

save_progress(file, progress_record, fault) ==
    IF file.state = "corrupt" \/ fault = "open"
    THEN [file |-> file, raised |-> TRUE]
    ELSE IF fault = "dump"
    THEN [file |-> CorruptFile, raised |-> TRUE]
    ELSE [file |-> [state |-> "ok",
                    attempts |-> Append(LoadAttempts(file), progress_record)],
          raised |-> FALSE]

(***************************************************************************)
(* Initial state: the state after TypingApp.__init__.                      *)
(***************************************************************************)
BlankEntry == <<" ">>
NamedEntry == <<"b", "o", "b", " ">>

Installations ==
    { [source |-> MissingSource, username |-> BlankEntry],
      [source |-> EmptySource, username |-> NamedEntry],
      [source |-> FullSource, username |-> NamedEntry] }

Anonymous == <<"A", "n", "o", "n", "y", "m", "o", "u", "s">>

Init ==
    /\ \E inst \in Installations :
          /\ lessons = InitialLessons(inst.source)
          /\ username_entry = inst.username
    /\ current_lesson_index = 0
    /\ selected_lesson = IF Len(lessons) > 0 THEN lessons[1] ELSE NoLesson
    /\ lesson_var = IF Len(lessons) > 0 THEN LessonTitle(lessons[1]) ELSE <<>>
    /\ typed_text = <<>>
    /\ tags = <<>>
    /\ user_started_typing = FALSE
    /\ start_time = None
    /\ progress_file \in {AbsentFile, [state |-> "ok", attempts |-> <<>>]}
    /\ pending = <<>>
    /\ finished_windows = 0
    /\ now = 0
    /\ event = "__init__"
    /\ saved_records = <<>>
    /\ records_since_keystroke = 0
    /\ advances = 0
    /\ scored = NotScored

(***************************************************************************)
(* TypingApp.load_lesson_by_index.                                         *)
(***************************************************************************)
load_lesson_keep_text(index) ==
    IF index < 0 \/ index >= Len(lessons)
    THEN UNCHANGED session
    ELSE /\ current_lesson_index' = index
         /\ selected_lesson' = lessons[index + 1]
         /\ lesson_var' = LessonTitle(lessons[index + 1])
         /\ UNCHANGED <<typed_text, tags, user_started_typing, start_time>>

load_lesson_keep_timer(index) ==
    IF index < 0 \/ index >= Len(lessons)
    THEN UNCHANGED session
    ELSE /\ current_lesson_index' = index
         /\ selected_lesson' = lessons[index + 1]
         /\ lesson_var' = LessonTitle(lessons[index + 1])
         /\ typed_text' = <<>>
         /\ user_started_typing' = FALSE
         /\ UNCHANGED start_time
         /\ tags' = <<>>

load_lesson_by_index(index) ==
    IF index < 0 \/ index >= Len(lessons)
    THEN UNCHANGED session
    ELSE /\ current_lesson_index' = index
         /\ selected_lesson' = lessons[index + 1]
         /\ lesson_var' = LessonTitle(lessons[index + 1])
         /\ typed_text' = <<>>
         /\ user_started_typing' = FALSE
         /\ start_time' = None
         /\ tags' = <<>>

(***************************************************************************)
(* TypingApp.on_lesson_selected.  The combo box has put the chosen string  *)
(* into lesson_var before the handler runs.  FindLessonIndex is the for    *)
(* loop: the first index whose id prints as id_str, or NotFound.           *)
(***************************************************************************)
NotFound == -1

RECURSIVE FindLessonFrom(_, _, _)
FindLessonFrom(ls, lesson_id_str, i) ==
    IF i >= Len(ls) THEN NotFound
    ELSE IF Str(ls[i + 1].id) = lesson_id_str THEN i
    ELSE FindLessonFrom(ls, lesson_id_str, i + 1)

FindLessonIndex(ls, lesson_id_str) == FindLessonFrom(ls, lesson_id_str, 0)

LessonIdStr(selected_str) == Strip(SplitColonFirst(selected_str))

SelectableStrings ==
    { LessonTitle(lessons[i]) : i \in 1..Len(lessons) }
      \cup { <<"9", ":", " ", "X">> }

on_lesson_selected_reset_first(selected_str) ==
    LET i == FindLessonIndex(lessons, LessonIdStr(selected_str))
    IN  /\ IF i # NotFound
           THEN load_lesson_by_index(i)
           ELSE /\ lesson_var' = selected_str
                /\ typed_text' = <<>>
                /\ tags' = <<>>
                /\ user_started_typing' = FALSE
                /\ start_time' = None
                /\ UNCHANGED <<current_lesson_index, selected_lesson>>
        /\ records_since_keystroke' = 0
        /\ event' = "on_lesson_selected"
        /\ UNCHANGED <<scored, advances, lessons, username_entry, progress_file, pending, finished_windows,
                       now, saved_records>>

on_lesson_selected(selected_str) ==
    LET i == FindLessonIndex(lessons, LessonIdStr(selected_str))
    IN  /\ IF i # NotFound
           THEN load_lesson_by_index(i)
           ELSE /\ lesson_var' = selected_str
                /\ UNCHANGED <<current_lesson_index, selected_lesson, typed_text, tags,
                               user_started_typing, start_time>>
        /\ records_since_keystroke' = IF i # NotFound THEN 0 ELSE records_since_keystroke
        /\ event' = "on_lesson_selected"
        /\ UNCHANGED <<scored, advances, lessons, username_entry, progress_file, pending, finished_windows,
                       now, saved_records>>

OnLessonSelected == \E selected_str \in SelectableStrings : on_lesson_selected(selected_str)

(***************************************************************************)
(* TypingApp.on_key_press, followed by what the Text widget does with the  *)
(* key: a printable key appends a character (untagged), BackSpace removes  *)
(* the last one, a modifier key changes nothing.                           *)
(***************************************************************************)
on_key_press_restart ==
    user_started_typing' = TRUE /\ start_time' = now

on_key_press ==
    IF ~user_started_typing
    THEN user_started_typing' = TRUE /\ start_time' = now
    ELSE UNCHANGED <<user_started_typing, start_time>>

KeyPressRest ==
    /\ records_since_keystroke' = 0
    /\ event' = "on_key_press"
    /\ UNCHANGED <<scored, advances, lessons, current_lesson_index, selected_lesson, lesson_var,
                   username_entry, progress_file, pending, finished_windows, now,
                   saved_records>>

KeyPressChar ==
    \E c \in Keys :
        /\ Len(typed_text) < MaxTyped
        /\ on_key_press
        /\ typed_text' = Append(typed_text, c)
        /\ tags' = Append(tags, "none")
        /\ KeyPressRest

KeyPressBackSpace ==
    /\ on_key_press
    /\ typed_text' = IF typed_text = <<>> THEN <<>>
                     ELSE SubSeq(typed_text, 1, Len(typed_text) - 1)
    /\ tags' = IF tags = <<>> THEN <<>> ELSE SubSeq(tags, 1, Len(tags) - 1)
    /\ KeyPressRest

KeyPressModifier ==
    /\ on_key_press
    /\ UNCHANGED <<typed_text, tags>>
    /\ KeyPressRest

(***************************************************************************)
(* TypingApp.on_text_changed, bound to <KeyRelease>.                       *)
(***************************************************************************)
ClassifyExtraCorrect(typed, reference) ==
    [i \in 1..Len(typed) |->
        IF i > Len(reference) \/ typed[i] = reference[i] THEN "correct" ELSE "incorrect"]

Classify(typed, reference) ==
    [i \in 1..Len(typed) |->
        IF i <= Len(reference) /\ typed[i] = reference[i] THEN "correct" ELSE "incorrect"]

on_text_changed ==
    /\ tags' = IF selected_lesson = NoLesson THEN tags
               ELSE Classify(typed_text, selected_lesson.content)
    /\ event' = "on_text_changed"
    /\ UNCHANGED <<scored, advances, lessons, current_lesson_index, selected_lesson, lesson_var, typed_text,
                   user_started_typing, start_time, username_entry, progress_file, pending,
                   finished_windows, now, saved_records, records_since_keystroke>>

(***************************************************************************)
(* TypingApp.on_submit and TypingApp.show_results.                         *)
(***************************************************************************)
SubmitGuardLessonOnly(lesson, started) == lesson # NoLesson

SubmitGuard(lesson, started) == lesson # NoLesson /\ started

SubmittedText(buffer) == RStripNewlines(buffer \o <<"\n">>)

Username(entry) == IF Strip(entry) = <<>> THEN Anonymous ELSE Strip(entry)

ProgressRecord(end_time) ==
    LET result == calculate_wpm_and_accuracy(SubmittedText(typed_text),
                                             selected_lesson.content, start_time, end_time)
    IN  [user |-> Username(username_entry),
         lessonId |-> selected_lesson.id,
         lessonTitle |-> selected_lesson.title,
         timestamp |-> now,
         wpm |-> result.wpm,
         accuracy |-> result.accuracy]

show_results_no_timer == UNCHANGED pending

show_results == pending' = Append(pending, [due |-> now + ResultDelaySeconds,
                                            from |-> current_lesson_index,
                                            open |-> TRUE])

on_submit(fault) ==
    /\ IF ~SubmitGuard(selected_lesson, user_started_typing)
       THEN UNCHANGED <<progress_file, pending, saved_records, records_since_keystroke>>
       ELSE /\ Len(LoadAttempts(progress_file)) < MaxAttempts
            /\ LET saved == save_progress(progress_file, ProgressRecord(now), fault)
               IN  /\ progress_file' = saved.file
                   /\ IF saved.raised
                      THEN UNCHANGED <<pending, saved_records, records_since_keystroke>>
                      ELSE /\ show_results
                           /\ saved_records' = Append(saved_records, ProgressRecord(now))
                           /\ records_since_keystroke' = records_since_keystroke + 1
    /\ event' = "on_submit"
    /\ UNCHANGED <<scored, advances, lessons, current_lesson_index, selected_lesson, lesson_var, typed_text,
                   tags, user_started_typing, start_time, username_entry,
                   finished_windows, now>>

OnSubmit == \E fault \in StorageFaults : on_submit(fault)

(***************************************************************************)
(* TypingApp.on_return_pressed: Shift+Return submits and inserts nothing;  *)
(* a plain Return lets the widget insert a newline.  A <Return> binding is *)
(* more specific than <KeyPress>, so on_key_press does not run for it.     *)
(***************************************************************************)
on_return_pressed(shift_held, fault) ==
    IF shift_held
    THEN on_submit(fault)
    ELSE /\ Len(typed_text) < MaxTyped
         /\ typed_text' = Append(typed_text, "\n")
         /\ tags' = Append(tags, "none")
         /\ event' = "on_return_pressed"
         /\ UNCHANGED <<scored, advances, lessons, current_lesson_index, selected_lesson, lesson_var,
                        user_started_typing, start_time, username_entry, progress_file,
                        pending, finished_windows, now, saved_records,
                        records_since_keystroke>>

OnReturnPressed ==
    \E shift_held \in BOOLEAN, fault \in StorageFaults : on_return_pressed(shift_held, fault)

(***************************************************************************)
(* TypingApp.close_results_and_next, run by the event loop once the delay  *)
(* of the oldest queued callback has passed.                               *)
(***************************************************************************)
close_results_and_wrap ==
    LET next_index == (current_lesson_index + 1) % Len(lessons)
    IN  /\ load_lesson_by_index(next_index)
        /\ records_since_keystroke' = 0
        /\ UNCHANGED finished_windows

close_results_and_next ==
    LET next_index == current_lesson_index + 1
    IN  IF next_index < Len(lessons)
        THEN /\ load_lesson_by_index(next_index)
             /\ records_since_keystroke' = 0
             /\ UNCHANGED finished_windows
        ELSE /\ finished_windows' = finished_windows + 1
             /\ UNCHANGED session
             /\ UNCHANGED records_since_keystroke

FireCallback ==
    /\ pending # <<>>
    /\ now >= Head(pending).due
    /\ pending' = Tail(pending)
    /\ close_results_and_next
    /\ event' = "close_results_and_next"
    /\ advances' = advances + 1
    /\ UNCHANGED <<scored, lessons, username_entry, progress_file, now, saved_records>>

(***************************************************************************)
(* The clock.                                                              *)
(***************************************************************************)
Tick ==
    /\ now + ResultDelaySeconds <= MaxClock
    /\ now' = now + ResultDelaySeconds
    /\ UNCHANGED <<scored, advances, lessons, session, username_entry, progress_file,
                   pending, finished_windows, event, saved_records,
                   records_since_keystroke>>

Next ==
    \/ OnLessonSelected
    \/ KeyPressChar
    \/ KeyPressBackSpace
    \/ KeyPressModifier
    \/ on_text_changed
    \/ OnSubmit
    \/ OnReturnPressed
    \/ FireCallback
    \/ Tick

Spec == Init /\ [][Next]_vars

(***************************************************************************)
(* The user closes a result window before its callback fires.  The queued  *)
(* callback stays queued: show_results keeps no handle to cancel it.       *)
(***************************************************************************)
CloseResultWindow ==
    \E k \in 1..Len(pending) :
        /\ pending[k].open
        /\ pending' = [pending EXCEPT ![k].open = FALSE]
        /\ UNCHANGED <<scored, advances, lessons, session, username_entry, progress_file,
                       finished_windows, now, event, saved_records,
                       records_since_keystroke>>

SpecTeardown == Init /\ [][Next \/ CloseResultWindow]_vars

(***************************************************************************)
(* The event loop runs a callback that is due, and time passes.            *)
(***************************************************************************)
SpecFair == Spec /\ WF_vars(Tick) /\ WF_vars(FireCallback)

(***************************************************************************)
(* Grading and scoring over a range of buffers, references and clock       *)
(* readings: a session in which the user has typed typed_text against the  *)
(* lesson at current_lesson_index, with the highlight tags of an earlier   *)
(* buffer still in place.  Score is a direct call of                       *)
(* calculate_wpm_and_accuracy on the buffer as it is.                      *)
(***************************************************************************)
GradeKeys == {"a", "b", "\n"}

GradeLessons ==
    << [id |-> 1, title |-> <<"E">>, content |-> <<>>],
       [id |-> 2, title |-> <<"A">>, content |-> <<"a">>],
       [id |-> 3, title |-> <<"A", "B">>, content |-> <<"a", "b">>],
       [id |-> 4, title |-> <<"D">>, content |-> <<"a", "b", "d">>],
       [id |-> 5, title |-> <<"W">>, content |-> <<"a", " ", "b", " ", "c">>] >>

StringsUpTo(n) == UNION { [1..k -> GradeKeys] : k \in 0..n }

GradeTyped ==
    StringsUpTo(MaxGradeLen)
      \cup { GradeLessons[i].content : i \in 1..Len(GradeLessons) }
      \cup { <<"a", "b", "c">> }

GradeTimes ==
    { [start |-> 0, end |-> 0], [start |-> 0, end |-> 7], [start |-> 0, end |-> 60],
      [start |-> 9, end |-> 7] }

StaleTags(text) == { [i \in 1..Len(text) |-> mark] : mark \in {"none", "correct"} }

InitGrade ==
    /\ lessons = GradeLessons
    /\ username_entry = NamedEntry
    /\ current_lesson_index \in 0..(Len(lessons) - 1)
    /\ selected_lesson = lessons[current_lesson_index + 1]
    /\ lesson_var = LessonTitle(selected_lesson)
    /\ typed_text \in GradeTyped
    /\ tags \in StaleTags(typed_text)
    /\ user_started_typing = TRUE
    /\ \E t \in GradeTimes : start_time = t.start /\ now = t.end
    /\ progress_file = AbsentFile
    /\ pending = <<>>
    /\ finished_windows = 0
    /\ event = "on_key_press"
    /\ saved_records = <<>>
    /\ records_since_keystroke = 0
    /\ advances = 0
    /\ scored = NotScored

Score ==
    /\ ~scored.done
    /\ LET typed == typed_text
           reference == selected_lesson.content
           result == calculate_wpm_and_accuracy(typed, reference, start_time, now)
       IN  scored' = [done |-> TRUE, typed |-> typed, reference |-> reference,
                      start |-> start_time, end |-> now,
                      errors |-> CountErrors(typed, reference),
                      correct_chars |-> CorrectChars(typed, reference),
                      wpm |-> result.wpm, accuracy |-> result.accuracy]
    /\ UNCHANGED <<advances, lessons, session, username_entry, progress_file, pending,
                   finished_windows, now, event, saved_records, records_since_keystroke>>

NextGrade ==
    \/ on_text_changed
    \/ OnSubmit
    \/ Score

SpecGrade == InitGrade /\ [][NextGrade]_vars

(***************************************************************************)
(* Properties.                                                             *)
(***************************************************************************)
IsPrefix(s, t) == Len(s) <= Len(t) /\ SubSeq(t, 1, Len(s)) = s

Attempts == LoadAttempts(progress_file)

FreshSession ==
    /\ typed_text = <<>>
    /\ tags = <<>>
    /\ ~user_started_typing
    /\ start_time = None

CallbackFires == pending # <<>> /\ pending' = Tail(pending)

KnownId(selected_str) ==
    \E i \in 1..Len(lessons) : Str(lessons[i].id) = LessonIdStr(selected_str)

UnknownSelection == <<"9", ":", " ", "X">>

\* C1: submitting twice in a row, with no key press and no lesson load in
\* between, appends exactly one record: at most one record is appended
\* between two key presses or lesson loads.
C1_SecondSubmitAppendsNothing == records_since_keystroke <= 1

\* C2: on_submit in a session that has received no key press since its
\* lesson was loaded changes nothing (no record, no callback, same index,
\* flag and start time), and every step that appends a record starts in a
\* session whose start time is recorded.
C2_IdleSubmitIsNoOp ==
    [][ /\ (event' = "on_submit" /\ now' = now /\ ~user_started_typing)
            => UNCHANGED <<progress_file, pending, saved_records, session>>
        /\ (Len(LoadAttempts(progress_file')) > Len(Attempts))
            => (user_started_typing /\ start_time # None) ]_vars

C2_Witness ==
    /\ event = "on_submit"
    /\ ~user_started_typing
    /\ start_time = None
    /\ typed_text = <<>>
    /\ Attempts = <<>>
    /\ pending = <<>>

\* C3: when a callback scheduled by a submit on the lesson at index i fires,
\* the lesson at index i+1 is loaded, or completion is reported if i is the
\* last index, whatever happened between the submit and the firing.
C3_CallbackLoadsSuccessorOfSubmittedLesson ==
    [][ CallbackFires =>
          IF Head(pending).from + 1 < Len(lessons)
          THEN current_lesson_index' = Head(pending).from + 1
          ELSE finished_windows' = finished_windows + 1 ]_vars

\* C4: selecting a different lesson appends no record and resets the typed
\* text, the started flag and the start time, whatever the state of the
\* session that was in progress.
C4_SelectionDiscardsSession ==
    [][ (event' = "on_lesson_selected" /\ now' = now
           /\ current_lesson_index' # current_lesson_index)
          => /\ progress_file' = progress_file
             /\ typed_text' = <<>>
             /\ ~user_started_typing'
             /\ start_time' = None ]_vars

C4_Witness ==
    /\ event = "on_lesson_selected"
    /\ current_lesson_index = 1
    /\ pending # <<>>
    /\ Head(pending).from = 0
    /\ Len(Attempts) = 1
    /\ FreshSession

\* C5: when the advance step runs with current index i, then if i+1 < count
\* the index becomes i+1 and that lesson is loaded; otherwise the index
\* stays i, one all-lessons-complete window is created and the session
\* fields are left as they are.
C5_AdvanceOrComplete ==
    [][ CallbackFires =>
          IF current_lesson_index + 1 < Len(lessons)
          THEN /\ current_lesson_index' = current_lesson_index + 1
               /\ selected_lesson' = lessons[current_lesson_index + 2]
               /\ finished_windows' = finished_windows
          ELSE /\ current_lesson_index' = current_lesson_index
               /\ finished_windows' = finished_windows + 1
               /\ UNCHANGED <<selected_lesson, typed_text, tags, user_started_typing,
                              start_time>> ]_vars

C5_Witness ==
    /\ event = "close_results_and_next"
    /\ Len(lessons) = 2
    /\ current_lesson_index = 1
    /\ finished_windows = 1
    /\ user_started_typing
    /\ Len(Attempts) = 2
    /\ Attempts[1].lessonId = 1
    /\ Attempts[2].lessonId = 2

\* C6: n calls of save_progress that return, against a progress file that
\* was absent or held no record, leave exactly the n records passed in, in
\* call order.
C6_FileHoldsSavedRecords ==
    /\ progress_file.state = "ok" => progress_file.attempts = saved_records
    /\ progress_file.state = "absent" => saved_records = <<>>

C6_Witness ==
    /\ progress_file.state = "ok"
    /\ Len(progress_file.attempts) = 2
    /\ progress_file.attempts[1] # progress_file.attempts[2]

\* C7: the persisted log is append-only under every event, a submit whose
\* write fails included: the records persisted before a step are a prefix
\* of the records persisted after it.
C7_LogIsAppendOnly ==
    [][ IsPrefix(progress_file.attempts, progress_file'.attempts) ]_vars

\* C8: once the session has started, a further key press leaves the start
\* time (and the started flag) as it is.
C8_OnlyFirstKeyFixesStart ==
    [][ (user_started_typing /\ event' = "on_key_press" /\ now' = now)
          => (start_time' = start_time /\ user_started_typing') ]_vars

C8_Witness ==
    /\ event = "on_key_press"
    /\ records_since_keystroke = 0
    /\ user_started_typing
    /\ start_time = 0
    /\ Len(saved_records) = 1
    /\ saved_records[1].timestamp = ResultDelaySeconds

\* C9: every lesson load (the initial one, an advance to a next lesson, a
\* selection of a known id) leaves an empty buffer, no tags, the started
\* flag false, no start time, and the lesson of the loaded index current.
C9_LoadGivesFreshSession ==
    [][ /\ event = "__init__"
            => (FreshSession /\ current_lesson_index = 0 /\ selected_lesson = lessons[1])
        /\ (CallbackFires /\ current_lesson_index + 1 < Len(lessons))
            => /\ FreshSession'
               /\ current_lesson_index' = current_lesson_index + 1
               /\ selected_lesson' = lessons[current_lesson_index' + 1]
        /\ (event' = "on_lesson_selected" /\ now' = now /\ KnownId(lesson_var'))
            => /\ FreshSession'
               /\ Str(lessons[current_lesson_index' + 1].id) = LessonIdStr(lesson_var')
               /\ selected_lesson' = lessons[current_lesson_index' + 1] ]_vars

C9_Witness ==
    /\ event = "close_results_and_next"
    /\ current_lesson_index = 1
    /\ finished_windows = 0
    /\ FreshSession
    /\ Len(Attempts) = 1
    /\ Attempts[1].accuracy > 0
    /\ now = ResultDelaySeconds

\* C10: selecting an id that no lesson of the catalog has finds nothing and
\* leaves the index, the selected lesson, the typed text, the started flag,
\* the start time and the progress log as they were.
C10_UnknownIdLeavesSession ==
    [][ (event' = "on_lesson_selected" /\ now' = now /\ ~KnownId(lesson_var'))
          => /\ FindLessonIndex(lessons, LessonIdStr(lesson_var')) = NotFound
             /\ UNCHANGED <<current_lesson_index, selected_lesson, typed_text, tags,
                            user_started_typing, start_time, progress_file, pending>> ]_vars

C10_Witness ==
    /\ event = "on_lesson_selected"
    /\ lesson_var = UnknownSelection
    /\ user_started_typing
    /\ start_time # None
    /\ typed_text # <<>>

Abs(x) == IF x >= 0 THEN x ELSE -x

Min(a, b) == IF a <= b THEN a ELSE b

Mismatches(typed, reference) ==
    Cardinality({ i \in 1..Min(Len(typed), Len(reference)) : typed[i] # reference[i] })

\* C11: after a text-change event every typed index carries exactly one
\* mark, "correct" exactly when the index lies inside the reference and the
\* characters agree and "incorrect" otherwise, whatever marks were there
\* before; positions beyond the typed text carry no mark.
C11_MarksFollowBufferAndReference ==
    event = "on_text_changed" =>
        /\ Len(tags) = Len(typed_text)
        /\ \A i \in 1..Len(typed_text) :
              /\ tags[i] \in {"correct", "incorrect"}
              /\ (tags[i] = "correct")
                    <=> (i <= Len(selected_lesson.content)
                           /\ typed_text[i] = selected_lesson.content[i])

C11_Witness ==
    /\ event = "on_text_changed"
    /\ selected_lesson.content = <<"a", "b">>
    /\ typed_text = <<"a", "b", "a">>
    /\ tags = <<"correct", "correct", "incorrect">>

\* C12 as stated: whenever typed equals the reference,
\* calculate_wpm_and_accuracy returns accuracy 100.
C12_IdenticalTextScoresFull ==
    (scored.done /\ scored.typed = scored.reference) => scored.accuracy = 100 * 100

\* C12 as amended: whenever typed equals a non-empty reference,
\* calculate_wpm_and_accuracy returns accuracy 100 (for the empty pair it
\* returns 0), and the live diff of a buffer equal to the reference marks
\* every index correct.
C12_IdenticalNonEmptyTextScoresFull ==
    /\ (scored.done /\ scored.typed = scored.reference)
          => scored.accuracy = IF scored.reference = <<>> THEN 0 ELSE 100 * 100
    /\ (event = "on_text_changed" /\ typed_text = selected_lesson.content)
          => \A i \in 1..Len(typed_text) : tags[i] = "correct"

C12_Witness ==
    /\ scored.done
    /\ scored.typed = <<"a", " ", "b", " ", "c">>
    /\ scored.reference = scored.typed
    /\ scored.accuracy = 100 * 100
    /\ event = "on_text_changed"
    /\ tags = <<"correct", "correct", "correct", "correct", "correct">>

\* C13: the error count of the walk is the number of differing characters
\* on the common indices plus the difference of the two lengths, and the
\* number of correct characters is max(0, len(reference) - errors).
C13_ErrorsAreMismatchesPlusLengthGap ==
    scored.done =>
        /\ scored.errors = Mismatches(scored.typed, scored.reference)
                             + Abs(Len(scored.typed) - Len(scored.reference))
        /\ scored.correct_chars =
              IF Len(scored.reference) >= scored.errors
              THEN Len(scored.reference) - scored.errors ELSE 0

C13_Witness ==
    /\ scored.done
    /\ scored.typed = <<"a", "b", "c">>
    /\ scored.reference = <<"a", "b", "d">>
    /\ scored.errors = 1
    /\ scored.correct_chars = 2
    /\ scored.accuracy = 6667

\* C14: wpm is the word count divided by the elapsed minutes, to two
\* decimals, when the elapsed time and the word count are both positive, and
\* 0 otherwise; "a b c" in 60 seconds gives 3.
C14_WpmIsWordsPerMinute ==
    scored.done =>
        LET elapsed == scored.end - scored.start
            words == WordCount(scored.reference)
        IN  /\ IF elapsed > 0 /\ words > 0
               THEN 2 * Abs(scored.wpm * elapsed - words * 60 * 100) <= elapsed
               ELSE scored.wpm = 0
            /\ (scored.reference = <<"a", " ", "b", " ", "c">> /\ elapsed = 60)
                  => scored.wpm = 300

C14_Witness ==
    /\ scored.done
    /\ scored.reference = <<"a", " ", "b", " ", "c">>
    /\ scored.end - scored.start = 60
    /\ scored.wpm = 300

\* C15: every record appended to the log has wpm >= 0 and accuracy between
\* 0 and 100, and carries the id and title of the lesson that was current
\* when it was submitted.
C15_RecordsAreInRange ==
    [][ Len(LoadAttempts(progress_file')) > Len(Attempts) =>
          LET record == progress_file'.attempts[Len(progress_file'.attempts)]
          IN  /\ record.wpm >= 0
              /\ record.accuracy >= 0
              /\ record.accuracy <= 100 * 100
              /\ record.lessonId = lessons[current_lesson_index + 1].id
              /\ record.lessonTitle = lessons[current_lesson_index + 1].title ]_vars

C15_Witness ==
    /\ event = "on_submit"
    /\ Len(Attempts) = 1
    /\ selected_lesson.content # <<>>
    /\ CountErrors(SubmittedText(typed_text), selected_lesson.content)
          > Len(selected_lesson.content)
    /\ Attempts[1].accuracy = 0
    /\ Attempts[1].lessonId = selected_lesson.id
    /\ start_time > now
    /\ Attempts[1].wpm = 0

\* C16: the catalog is never empty (it is the single placeholder lesson,
\* id 1 "No Lessons Found", when the lesson source is absent or has no
\* lesson), the current index lies within it and the selected lesson is its
\* entry at that index.
C16_CatalogNeverEmpty ==
    /\ Len(lessons) >= 1
    /\ current_lesson_index >= 0
    /\ current_lesson_index < Len(lessons)
    /\ selected_lesson = lessons[current_lesson_index + 1]
    /\ InitialLessons(MissingSource) = <<PlaceholderLesson>>
    /\ InitialLessons(EmptySource) = <<PlaceholderLesson>>
    /\ InitialLessons(FullSource) = FullSource.lessons
    /\ PlaceholderLesson.id = 1
    /\ PlaceholderLesson.title = <<"N", "o", " ", "L", "e", "s", "s", "o", "n", "s", " ",
                                   "F", "o", "u", "n", "d">>

C16_Witness ==
    /\ lessons = <<PlaceholderLesson>>
    /\ event = "close_results_and_next"
    /\ finished_windows = 1
    /\ current_lesson_index = 0
    /\ Len(Attempts) = 1
    /\ Attempts[1].lessonTitle = PlaceholderLesson.title

\* C17: a callback whose result window was closed before it fires is
\* cancelled: no advance step runs for a window that has been torn down.
C17_ClosedWindowCancelsCallback ==
    [][ CallbackFires => Head(pending).open ]_vars

\* C18: each submit that appended a record is followed by exactly one
\* advance step, and advance steps happen only for such submits: the number
\* of advance steps plus the number of queued callbacks is the number of
\* appended records, and the n-th appended record (whose callback falls due
\* within the modelled clock range) leads to the n-th advance step.
C18_SubmitLeadsToOneAdvance ==
    /\ [](advances + Len(pending) = Len(saved_records))
    /\ \A n \in 1..MaxAttempts :
          (Len(saved_records) >= n
             /\ saved_records[n].timestamp + ResultDelaySeconds <= MaxClock)
          ~> (advances >= n)

C18_Witness ==
    /\ advances = 2
    /\ Len(saved_records) = 2
    /\ pending = <<>>
    /\ event = "close_results_and_next"

\* C19: the started flag is true exactly when a start time is recorded, and
\* a recorded start time is never later than the clock, so the elapsed time
\* computed by a submit that passes its guard is >= 0.
C19_FlagAndStartTimeAgree ==
    /\ user_started_typing <=> start_time # None
    /\ user_started_typing => (start_time >= 0 /\ start_time <= now)

C19_Witness ==
    /\ event = "on_submit"
    /\ user_started_typing
    /\ start_time = 0
    /\ now = ResultDelaySeconds
    /\ Len(Attempts) = 1
    /\ Attempts[1].timestamp = now
    /\ Attempts[1].wpm > 0

\* C20: the text scored by on_submit is the buffer that live grading
\* classifies, so a record with accuracy 100 is appended only when the live
\* diff of the buffer marks every typed index correct.
C20_ScoredTextIsGradedBuffer ==
    (event = "on_submit" /\ saved_records # <<>>
       /\ saved_records[Len(saved_records)].accuracy = 100 * 100)
      => \A i \in 1..Len(typed_text) :
            Classify(typed_text, selected_lesson.content)[i] = "correct"

====
